---- MODULE Spec2Model ----
(***************************************************************************)
(* Verification model of the section monitor (src/app.py): the polling     *)
(* loop, the section matcher, the seat parser, the status table, the       *)
(* circuit breaker, the rate limiter and the session manager.              *)
(***************************************************************************)
EXTENDS Integers, Sequences, FiniteSets, TLC

\* ------------------------------------------------------------ constants
CHECK_INTERVAL == 10
failure_threshold == 3
recovery_timeout == 60
max_retries == 3
session_duration == 1500
\* timeout=10 of session.get: the longest one request may take
RequestTimeout == 10
\* the rate limiter's baseline cooldown and the cap of its exponent
BaseCooldown == 10
MaxBackoffExp == 3

\* ------------------------------------------------------------ bounds
\* the clock when the process starts, and how many CHECK_INTERVALs are explored
StartTime == 2000
MaxTicks == 2
MaxTicksBreaker == 9
MaxTicksLimiter == 23
\* how many CHECK_INTERVALs the upstream may fail in before it recovers
MaxTicksFailing == 3
\* the longest upstream listing explored
MaxListing == 2
\* the longest list of recipients explored
MaxRecipients == 3
\* the highest failure count from which record_failure is still entered
MaxFailures == 4

\* ------------------------------------------------------------ seat values
\* The 'seats' field of a raw record, by shape.  cur/total are the numbers
\* the text holds where it holds numbers.
\*   missing   the record has no 'seats' key
\*   na        the text 'N/A' (or an empty / null value)
\*   text      text without '/', not a number
\*   num       a bare number n, or the text "n"
\*   slash     the text "cur/total", both numbers
\*   badcur    the text "x/total", x not a number
\*   badtotal  the text "cur/x", x not a number
SeatValue(k, c, t) == [k |-> k, cur |-> c, total |-> t]
Missing == SeatValue("missing", 0, 0)
NA == SeatValue("na", 0, 0)
Txt == SeatValue("text", 0, 0)
Num(n) == SeatValue("num", n, 0)
Slash(c, t) == SeatValue("slash", c, t)
BadCur(t) == SeatValue("badcur", 0, t)
BadTotal(c) == SeatValue("badtotal", c, 0)

\* dict.get('seats', 'N/A')
GetSeats(section_data) ==
    IF section_data.seats.k = "missing" THEN NA ELSE section_data.seats

\* has_available_seats without its except branch deciding False: a text that
\* does not parse counts as available
has_available_seats_lenient(seats) ==
    CASE seats.k = "na" -> FALSE
      [] seats.k = "missing" -> FALSE
      [] seats.k = "text" -> TRUE
      [] seats.k = "badcur" -> TRUE
      [] seats.k = "num" -> seats.cur > 0
      [] seats.k = "slash" -> seats.cur > 0
      [] seats.k = "badtotal" -> seats.cur > 0

\* has_available_seats(seats): falsy or 'N/A' is False; "cur/total" is
\* int(cur) > 0 (total is split off and never parsed); otherwise int(seats) > 0;
\* a ValueError is False.
has_available_seats(seats) ==
    CASE seats.k = "na" -> FALSE
      [] seats.k = "missing" -> FALSE
      [] seats.k = "text" -> FALSE
      [] seats.k = "badcur" -> FALSE
      [] seats.k = "num" -> seats.cur > 0
      [] seats.k = "slash" -> seats.cur > 0
      [] seats.k = "badtotal" -> seats.cur > 0

\* update_status, lines 91-98: the count kept for a section.  Only a text
\* with exactly one '/' unpacks into (current_seats, _); a bare number raises
\* ValueError on the unpacking and the count stays 0.
ParsedAvailable(seats) ==
    IF has_available_seats(seats)
    THEN IF seats.k \in {"slash", "badtotal"} THEN seats.cur ELSE 0
    ELSE 0

CourseState(seats) == [status |-> seats, available_seats |-> ParsedAvailable(seats)]

\* What a seat value says, read off the text alone: no available count can
\* be read (absent, 'N/A', text, a non-numeric count), or the count it shows.
Unverifiable(seats) == seats.k \in {"missing", "na", "text", "badcur"}
ShownAvailable(seats) == IF Unverifiable(seats) THEN 0 ELSE seats.cur
ShowsZero(seats) == ~ Unverifiable(seats) /\ seats.cur = 0
ShowsPositive(seats) == ~ Unverifiable(seats) /\ seats.cur > 0

\* ------------------------------------------------------------ matching
\* A raw listing entry.  section = "" or crn = "" stand for a missing key;
\* sections is the nested list of the alternative payload structure.
Raw(code, section, crn, seats) ==
    [code |-> code, section |-> section, crn |-> crn, seats |-> seats,
     sections |-> <<>>]
Nested(code, subs) ==
    [code |-> code, section |-> "", crn |-> "", seats |-> Missing,
     sections |-> subs]

NotFound == [found |-> FALSE, data |-> Raw("", "", "", Missing)]
Found(d) == [found |-> TRUE, data |-> d]

SectionMatches(entry, target_section) ==
    \/ entry.section = target_section.section
    \/ entry.crn = target_section.crn

\* first nested section that matches, lines 418-422
RECURSIVE FirstNested(_, _)
FirstNested(sections, target_section) ==
    IF sections = <<>> THEN NotFound
    ELSE IF SectionMatches(Head(sections), target_section)
         THEN Found(Head(sections))
         ELSE FirstNested(Tail(sections), target_section)

find_section_data(course_data, target_section) ==
    IF SectionMatches(course_data, target_section)
    THEN Found(course_data)
    ELSE FirstNested(course_data.sections, target_section)

\* lines 456-459: the entries of the listing with the target course code
RECURSIVE MatchingCourses(_, _)
MatchingCourses(department_courses, course_code) ==
    IF department_courses = <<>> THEN <<>>
    ELSE IF Head(department_courses).code = course_code
         THEN <<Head(department_courses)>>
                  \o MatchingCourses(Tail(department_courses), course_code)
         ELSE MatchingCourses(Tail(department_courses), course_code)

\* lines 467-493: the first course instance that yields section data
RECURSIVE SelectSection(_, _)
SelectSection(matching_courses, target_section) ==
    IF matching_courses = <<>> THEN NotFound
    ELSE LET r == find_section_data(Head(matching_courses), target_section)
         IN IF r.found THEN r
            ELSE SelectSection(Tail(matching_courses), target_section)

SectionInfo(department, course_code, target_section, seats) ==
    [department |-> department, code |-> course_code,
     section |-> target_section.section, crn |-> target_section.crn,
     seats |-> seats]

\* lines 464-496 for the sections of one target course
RECURSIVE CheckSections(_, _, _, _)
CheckSections(department, course_code, sections, matching_courses) ==
    IF sections = <<>> THEN <<>>
    ELSE LET r == SelectSection(matching_courses, Head(sections))
             rest == CheckSections(department, course_code, Tail(sections),
                                   matching_courses)
         IN IF r.found
            THEN <<SectionInfo(department, course_code, Head(sections),
                               GetSeats(r.data))>> \o rest
            ELSE rest

\* lines 451-496 for the target courses of one department
RECURSIVE CheckCourses(_, _, _)
CheckCourses(department, courses, department_courses) ==
    IF courses = <<>> THEN <<>>
    ELSE CheckSections(department, Head(courses).code, Head(courses).sections,
                       MatchingCourses(department_courses, Head(courses).code))
             \o CheckCourses(department, Tail(courses), department_courses)

\* lines 488-489: the observed sections that have seats
RECURSIVE AvailableOf(_)
AvailableOf(section_data) ==
    IF section_data = <<>> THEN <<>>
    ELSE IF has_available_seats(Head(section_data).seats)
         THEN <<Head(section_data)>> \o AvailableOf(Tail(section_data))
         ELSE AvailableOf(Tail(section_data))

\* f"{s['code']}-{s['section']}-{s['crn']}"
Identifier(s) == <<s.code, s.section, s.crn>>
\* f"{course['code']}-{course['section']}"
Key(s) == <<s.code, s.section>>

Identifiers(sections) == {Identifier(sections[i]) : i \in DOMAIN sections}

\* lines 87-104: every observed section overwrites its entry
RECURSIVE UpdateCourseData(_, _)
UpdateCourseData(table, section_data) ==
    IF section_data = <<>> THEN table
    ELSE LET s == Head(section_data)
             k == Key(s)
             t == [x \in DOMAIN table \cup {k} |->
                      IF x = k THEN CourseState(s.seats) ELSE table[x]]
         IN UpdateCourseData(t, Tail(section_data))

\* the observed sections seen closed: zero seats, or seats that cannot be read
RECURSIVE SeenClosed(_)
SeenClosed(section_data) ==
    IF section_data = <<>> THEN <<>>
    ELSE IF ShowsPositive(Head(section_data).seats)
         THEN SeenClosed(Tail(section_data))
         ELSE <<Head(section_data)>> \o SeenClosed(Tail(section_data))

\* lines 902-905 without the filter on new_sections: every available section
\* is handed to send_section_notification
NewAvailableAll(available_sections, new_sections) == available_sections

\* a selection that holds every newly open section back
NewAvailableNone(available_sections, new_sections) == <<>>

\* lines 902-905
RECURSIVE NewAvailable(_, _)
NewAvailable(available_sections, new_sections) ==
    IF available_sections = <<>> THEN <<>>
    ELSE IF Identifier(Head(available_sections)) \in new_sections
         THEN <<Head(available_sections)>>
                  \o NewAvailable(Tail(available_sections), new_sections)
         ELSE NewAvailable(Tail(available_sections), new_sections)

\* ------------------------------------------------------------ circuit breaker
\* cb = [state, failure_count, last_failure_time]
CircuitBreaker ==
    [state |-> "CLOSED", failure_count |-> 0, last_failure_time |-> 0]

\* can_execute without its recovery_timeout branch: an OPEN breaker refuses
can_execute_no_recovery(cb, t) ==
    IF cb.state = "OPEN"
    THEN [ok |-> FALSE, cb |-> cb]
    ELSE [ok |-> TRUE, cb |-> cb]

\* can_execute at time t: the answer and the breaker after it
can_execute(cb, t) ==
    IF cb.state = "OPEN"
    THEN IF t - cb.last_failure_time > recovery_timeout
         THEN [ok |-> TRUE, cb |-> [cb EXCEPT !.state = "HALF_OPEN"]]
         ELSE [ok |-> FALSE, cb |-> cb]
    ELSE [ok |-> TRUE, cb |-> cb]

record_success(cb) == [cb EXCEPT !.failure_count = 0, !.state = "CLOSED"]

record_failure(cb, t) ==
    LET n == cb.failure_count + 1
    IN [state |-> IF n >= failure_threshold /\ cb.state # "OPEN"
                  THEN "OPEN" ELSE cb.state,
        failure_count |-> n,
        last_failure_time |-> t]

\* ------------------------------------------------------------ rate limiter
\* rl = [department_calls, failure_counts], both total over the departments
\* (dict.get(department, 0))
\* the cooldown without the min(failure_count, 3) that caps its exponent
CooldownUncapped(failure_count) ==
    LET c == BaseCooldown * (2 ^ failure_count)
    IN IF c > BaseCooldown THEN c ELSE BaseCooldown

Cooldown(failure_count) ==
    LET e == IF failure_count < MaxBackoffExp THEN failure_count ELSE MaxBackoffExp
        c == BaseCooldown * (2 ^ e)
    IN IF c > BaseCooldown THEN c ELSE BaseCooldown

can_call_department(rl, department, t) ==
    ~ ((t - rl.department_calls[department])
           < Cooldown(rl.failure_counts[department]))

\* record_call without line 194: the time of the call is not kept
record_call_no_refresh(rl, department, success, t) ==
    [department_calls |-> rl.department_calls,
     failure_counts |->
        [rl.failure_counts EXCEPT
            ![department] = IF success THEN 0 ELSE @ + 1]]

record_call(rl, department, success, t) ==
    [department_calls |-> [rl.department_calls EXCEPT ![department] = t],
     failure_counts |->
        [rl.failure_counts EXCEPT
            ![department] = IF success THEN 0 ELSE @ + 1]]

\* ------------------------------------------------------------ session
\* sm = [session, last_login]; session is "none" or "valid"
SessionManager == [session |-> "none", last_login |-> 0]

\* get_session at time t; login is the outcome of login_to_website
get_session(sm, t, login) ==
    IF sm.session = "none" \/ t - sm.last_login > session_duration
    THEN IF login
         THEN [session |-> "valid",
               sm |-> [session |-> "valid", last_login |-> t]]
         ELSE [session |-> "none", sm |-> sm]
    ELSE [session |-> sm.session, sm |-> sm]

\* ------------------------------------------------------------ upstream call
Statuses == {"200", "429", "401", "500", "timeout"}

\* the retry loop with a 401 handled like any other error status: logged,
\* and the next attempt made
RECURSIVE AttemptsRetryingAuth(_, _)
AttemptsRetryingAuth(outs, i) ==
    IF i > max_retries THEN [end |-> "exhausted", requests |-> max_retries]
    ELSE IF outs[i] = "200" THEN [end |-> "ok", requests |-> i]
    ELSE AttemptsRetryingAuth(outs, i + 1)

\* the retry loop, lines 312-335, from attempt i on: how it ends and how
\* many requests it sent
RECURSIVE Attempts(_, _)
Attempts(outs, i) ==
    IF i > max_retries THEN [end |-> "exhausted", requests |-> max_retries]
    ELSE IF outs[i] = "200" THEN [end |-> "ok", requests |-> i]
    ELSE IF outs[i] = "401" THEN [end |-> "auth", requests |-> i]
    ELSE Attempts(outs, i + 1)

\* robust_api_call with record_failure inside the loop: one recorded failure
\* for every attempt of a call whose attempts ran out
robust_api_call_per_attempt(cb, outs, t0, t1) ==
    LET gate == can_execute(cb, t0)
        a == Attempts(outs, 1)
    IN IF ~ gate.ok
       THEN [how |-> "refused", requests |-> 0, cb |-> gate.cb]
       ELSE IF a.end = "ok"
       THEN [how |-> "ok", requests |-> a.requests,
             cb |-> record_success(gate.cb)]
       ELSE IF a.end = "auth"
       THEN [how |-> "auth", requests |-> a.requests, cb |-> gate.cb]
       ELSE [how |-> "failed", requests |-> a.requests,
             cb |-> record_failure(record_failure(record_failure(gate.cb, t1), t1), t1)]

\* robust_api_call: t0 is the time of can_execute, t1 the time the loop ends.
\* how: "refused" (the breaker said no), "ok" (a 200 response is returned),
\* "auth" (a 401 ended the call) or "failed" (the attempts ran out).
robust_api_call(cb, outs, t0, t1) ==
    LET gate == can_execute(cb, t0)
        a == Attempts(outs, 1)
    IN IF ~ gate.ok
       THEN [how |-> "refused", requests |-> 0, cb |-> gate.cb]
       ELSE IF a.end = "ok"
       THEN [how |-> "ok", requests |-> a.requests,
             cb |-> record_success(gate.cb)]
       ELSE IF a.end = "auth"
       THEN [how |-> "auth", requests |-> a.requests, cb |-> gate.cb]
       ELSE [how |-> "failed", requests |-> a.requests,
             cb |-> record_failure(gate.cb, t1)]

\* line 325: session_manager.session = None
InvalidateSession(sm) == [sm EXCEPT !.session = "none"]

\* A 200 payload: shape "data" ({'data': [...]}), "list" ([...]), "other"
\* (any other JSON) or "invalid" (response.json() raises).
Payload(shape, courses) == [shape |-> shape, courses |-> courses]

\* get_department_courses: the listing returned and every component after it.
\* how records what happened: "limited", "nosession", "refused", "failed",
\* "auth", "badpayload" or "ok".
get_department_courses(department, rl, sm, cb, t0, t1, login, outs, payload) ==
    IF ~ can_call_department(rl, department, t0)
    THEN [courses |-> <<>>, how |-> "limited", requests |-> 0,
          rl |-> rl, sm |-> sm, cb |-> cb]
    ELSE LET s == get_session(sm, t0, login)
         IN IF s.session = "none"
            THEN [courses |-> <<>>, how |-> "nosession", requests |-> 0,
                  rl |-> record_call(rl, department, FALSE, t0),
                  sm |-> s.sm, cb |-> cb]
            ELSE LET r == robust_api_call(cb, outs, t0, t1)
                     good == r.how = "ok" /\ payload.shape \in {"data", "list"}
                 IN [courses |-> IF good THEN payload.courses ELSE <<>>,
                     how |-> IF r.how = "ok" /\ ~ good THEN "badpayload"
                             ELSE r.how,
                     requests |-> r.requests,
                     rl |-> record_call(rl, department, good,
                                        IF r.requests = 0 THEN t0 ELSE t1),
                     sm |-> IF r.how = "auth" THEN InvalidateSession(s.sm)
                            ELSE s.sm,
                     cb |-> r.cb]

\* ------------------------------------------------------------ manifest store
\* COURSES_FILE: "absent" (no such file), "ok" (it holds a manifest) or
\* "corrupt" (it exists and json.load raises on it)
NoFile == [state |-> "absent", data |-> <<>>]
StoredFile(manifest) == [state |-> "ok", data |-> manifest]
CorruptFile == [state |-> "corrupt", data |-> <<>>]

\* load_courses: the manifest returned; shared says that it is the
\* DEFAULT_COURSES object itself and not a fresh copy read from the file
load_courses(f, defaults) ==
    IF f.state = "ok" THEN [manifest |-> f.data, shared |-> FALSE]
    ELSE [manifest |-> defaults, shared |-> TRUE]

\* save_courses.  outcome "ok"; "open": open() raises and the file is as it
\* was; "write": json.dump raises after open(.., 'w') has truncated the file
save_courses(f, manifest, outcome) ==
    CASE outcome = "ok" -> [ok |-> TRUE, file |-> StoredFile(manifest)]
      [] outcome = "open" -> [ok |-> FALSE, file |-> f]
      [] outcome = "write" -> [ok |-> FALSE, file |-> CorruptFile]

\* ------------------------------------------------------------ notifier
\* the lines send_section_notification writes for one section
Line(s) == <<s.code, s.section, s.crn, s.seats>>

Message(available_sections) ==
    [lines |-> [i \in DOMAIN available_sections |-> Line(available_sections[i])]]

\* send_section_notification without its test for an empty list
send_section_notification_always(available_sections) ==
    << Message(available_sections) >>

\* send_section_notification: the messages it composes and hands to
\* send_telegram_message
send_section_notification(available_sections) ==
    IF available_sections = <<>> THEN <<>>
    ELSE << Message(available_sections) >>

\* the loop of send_telegram_message from recipient i on; outcomes[i] is what
\* requests.post does for chat_ids[i]: "200", "403" (any other status) or
\* "raise" (a network error)
RECURSIVE PostAll(_, _, _)
PostAll(chat_ids, outcomes, i) ==
    IF i > Len(chat_ids)
    THEN [posted |-> <<>>, delivered |-> {}, success_count |-> 0, raised |-> FALSE]
    ELSE IF outcomes[i] = "raise"
    THEN [posted |-> <<chat_ids[i]>>, delivered |-> {}, success_count |-> 0,
          raised |-> TRUE]
    ELSE LET rest == PostAll(chat_ids, outcomes, i + 1)
             good == outcomes[i] = "200"
         IN [posted |-> <<chat_ids[i]>> \o rest.posted,
             delivered |-> IF good THEN {i} \cup rest.delivered
                           ELSE rest.delivered,
             success_count |-> IF good THEN 1 + rest.success_count
                               ELSE rest.success_count,
             raised |-> rest.raised]

\* send_telegram_message: the recipients it posted to, the positions of the
\* list whose post was answered 200, and the value it returns
send_telegram_message(chat_ids, outcomes) ==
    LET r == PostAll(chat_ids, outcomes, 1)
    IN [chat_ids |-> chat_ids, outcomes |-> outcomes, posted |-> r.posted,
        delivered |-> r.delivered,
        result |-> IF r.raised THEN FALSE ELSE r.success_count > 0]

\* ------------------------------------------------------------ state
VARIABLES
    now,                          \* time.time()
    pc,                           \* monitor_loop: "idle" between cycles, "check" inside one
    file,                         \* COURSES_FILE
    default_courses,              \* the DEFAULT_COURSES object
    aliased,                      \* the cycle iterates the DEFAULT_COURSES object itself
    courses_data,                 \* check_section_availability: the manifest it loaded
    todo,                         \* the departments its loop has not reached yet
    department_courses,           \* the listing of the department it is at
    all_section_data,             \* the sections it has found so far
    previous_available_sections,  \* monitor_loop's set of identifiers
    new_available,                \* the sections handed to send_section_notification
    course_data,                  \* app_state.course_data
    api_circuit_breaker,
    rate_limiter,
    session_manager,
    last_fetch,                   \* what the last get_department_courses did
    before,                       \* what the cycle started from
    open_since,                   \* identifiers notified and not seen closed since
    consecutive_failed,           \* admitted upstream calls without a response, in a row
    last_run,                     \* the answers the last upstream call received
    outbox,                       \* the messages the last cycle composed
    last_send,                    \* what the last send_telegram_message did
    last_command,                 \* what the last /add or /remove did
    breaker_callers,              \* CircuitBreaker._lock and where each calling thread is
    saving                        \* the save_courses in progress and the last completed one

vars == <<now, pc, file, courses_data, todo, department_courses, all_section_data,
          previous_available_sections, new_available, course_data,
          api_circuit_breaker, rate_limiter, session_manager, last_fetch,
          before, open_since, consecutive_failed, default_courses, aliased,
          last_run, outbox, last_send, last_command, breaker_callers,
          saving>>

\* ------------------------------------------------------------ inputs
Section(section, crn) == [section |-> section, crn |-> crn]
Course(code, sections) == [code |-> code, sections |-> sections]
Dept(department, courses) == [department |-> department, courses |-> courses]

\* the tracked manifest the model starts from: a file in the layout of
\* DEFAULT_COURSES, two departments
InitialManifest ==
    << Dept("EE", << Course("EE207", << Section("02", "22716"),
                                        Section("03", "22717") >>) >>),
       Dept("ENGL", << Course("ENGL214", << Section("14", "21510") >>) >>) >>

\* the department keys a manifest can hold: those of DEFAULT_COURSES and the
\* one an /add creates (lines 730-731)
Departments == {"EE", "ENGL", "CS"}

SeqsUpTo(S, n) == UNION {[1..k -> S] : k \in 0..n}

\* seat values the upstream sends: for the section the properties follow
\* (EE207-02), and for the other tracked sections
SeatsFollowed == {Missing, Txt, Slash(0, 25), Slash(3, 25), Num(3)}
SeatsOther == {Slash(0, 25), Slash(3, 25)}

\* upstream records of a department
RecordsPolled(department) ==
    IF department = "EE"
    THEN {Raw("EE207", "02", "22716", v) : v \in SeatsFollowed}
             \cup {Raw("EE207", "03", "22717", v) : v \in SeatsOther}
    ELSE {Raw("ENGL214", "14", "21510", Slash(0, 25))}

ListingsPolled ==
    [department \in Departments |-> SeqsUpTo(RecordsPolled(department), MaxListing)]

\* upstream records whose section and CRN fields need not belong together,
\* flat or nested under a course entry
FlatMatch ==
    {Raw("EE207", sec, crn, v) :
        sec \in {"02", "03"}, crn \in {"22716", "22799"},
        v \in {Slash(0, 25), Slash(3, 25)}}

RecordsMatch(department) ==
    IF department = "EE"
    THEN FlatMatch
             \cup {Nested("EE207", subs) :
                      subs \in SeqsUpTo(FlatMatch, MaxListing) \ {<<>>}}
    ELSE {Raw("ENGL214", "14", "21510", Slash(0, 25))}

ListingsMatch ==
    [department \in Departments |-> SeqsUpTo(RecordsMatch(department), MaxListing)]

\* upstream answers to the requests of one robust_api_call, attempt by attempt
RunsPolled ==
    { <<"200", "200", "200">>, <<"401", "200", "200">>,
      <<"500", "timeout", "429">> }
RunsBreaker ==
    { <<"200", "200", "200">>, <<"429", "200", "200">>, <<"500", "timeout", "200">>,
      <<"401", "200", "200">>, <<"timeout", "401", "200">>, <<"429", "500", "401">>,
      <<"500", "500", "500">>, <<"timeout", "429", "500">> }

\* how long one get_department_courses takes
DurationsPolled == {0}
DurationsBreaker == {0, RequestTimeout}

Payloads(listings) ==
    {Payload("data", l) : l \in listings}
        \cup {Payload("list", l) : l \in {x \in listings : Len(x) <= 1}}
        \cup {Payload("other", <<>>), Payload("invalid", <<>>)}

\* the record kept of one call: what it did, how many requests it sent, the
\* breaker's state when it was entered and whether the breaker blocked then
FetchRecord(department, how, requests, cb, t) ==
    [department |-> department, how |-> how, requests |-> requests,
     state_before |-> cb.state,
     blocked |-> cb.state = "OPEN" /\ ~ (t - cb.last_failure_time > recovery_timeout)]

NoFetch == FetchRecord("", "none", 0, CircuitBreaker, 0)

\* upstream calls that sent a request and returned no response, in a row,
\* counted up to failure_threshold
FailedInARow(n, how) ==
    IF how \in {"ok", "badpayload"} THEN 0
    ELSE IF how \in {"failed", "auth"} /\ n < failure_threshold THEN n + 1
    ELSE n

\* the state a cycle starts from: monitor_loop's set, the status table, the
\* sections the cycle before it found, and the sections still open since
\* their notification
Snapshot(previous, table, found, open) ==
    [previous |-> previous, course_data |-> table, all_section_data |-> found,
     open_since |-> open]

\* nothing sent yet, no command yet
NoSend == send_telegram_message(<<>>, <<>>)
NoCommand ==
    [kind |-> "none", reply |-> "none", save |-> "none",
     target |-> <<"", "", "">>]

\* the courses a manifest holds for a department ([] when it has no such key)
CoursesOf(manifest, department) ==
    LET at == {i \in DOMAIN manifest : manifest[i].department = department}
    IN IF at = {} THEN <<>> ELSE manifest[CHOOSE i \in at : TRUE].courses

\* the threads that call the breaker's methods
Threads == {"t1", "t2"}

Init ==
    /\ now = StartTime
    /\ pc = "idle"
    /\ file = NoFile
    /\ default_courses = InitialManifest
    /\ aliased = FALSE
    /\ courses_data = <<>>
    /\ todo = <<>>
    /\ department_courses = <<>>
    /\ all_section_data = <<>>
    /\ previous_available_sections = {}
    /\ new_available = <<>>
    /\ course_data = <<>>
    /\ api_circuit_breaker = CircuitBreaker
    /\ rate_limiter = [department_calls |-> [d \in Departments |-> 0],
                       failure_counts |-> [d \in Departments |-> 0]]
    /\ session_manager = SessionManager
    /\ last_fetch = NoFetch
    /\ before = Snapshot({}, <<>>, <<>>, {})
    /\ open_since = {}
    /\ consecutive_failed = 0
    /\ last_run = <<>>
    /\ outbox = <<>>
    /\ last_send = NoSend
    /\ last_command = NoCommand
    /\ breaker_callers = [lock |-> "none", at |-> [t \in Threads |-> "out"]]
    /\ saving = [active |-> FALSE, manifest |-> <<>>,
                 completed |-> FALSE, saved |-> <<>>]

\* ------------------------------------------------------------ actions
\* check_section_availability, lines 433-437: a cycle starts by loading the manifest
LoadCourses(maxTime) ==
    /\ pc = "idle"
    /\ now <= maxTime
    /\ pc' = "check"
    /\ LET l == load_courses(file, default_courses)
       IN /\ courses_data' = l.manifest
          /\ todo' = l.manifest
          /\ aliased' = l.shared
    /\ outbox' = <<>>
    /\ all_section_data' = <<>>
    /\ new_available' = <<>>
    /\ department_courses' = <<>>
    /\ before' = Snapshot(previous_available_sections, course_data,
                          all_section_data, open_since)
    /\ UNCHANGED <<now, file, previous_available_sections, course_data,
                   api_circuit_breaker, rate_limiter, session_manager,
                   last_fetch, open_since, consecutive_failed,
                   default_courses, last_run, last_send, last_command>>
    /\ UNCHANGED <<breaker_callers, saving>>

\* lines 439-496: one department of the loop
CheckDepartment(Listings, Runs, Durations) ==
    /\ pc = "check"
    /\ todo # <<>>
    /\ LET department == Head(todo).department
           courses == IF aliased THEN CoursesOf(default_courses, department)
                      ELSE Head(todo).courses
       IN IF aliased /\ Len(default_courses) # Len(courses_data)
          THEN \* the dict grew under the loop: RuntimeError, lines 504-506
               /\ todo' = <<>>
               /\ all_section_data' = <<>>
               /\ department_courses' = <<>>
               /\ UNCHANGED <<now, api_circuit_breaker, rate_limiter,
                              session_manager, last_fetch, consecutive_failed,
                              last_run>>
          ELSE IF courses = <<>>
          THEN /\ todo' = Tail(todo)
               /\ UNCHANGED <<now, department_courses, all_section_data, api_circuit_breaker,
                              rate_limiter, session_manager, last_fetch,
                              consecutive_failed, last_run>>
          ELSE \E login \in BOOLEAN, outs \in Runs, dur \in Durations :
                \E payload \in
                      IF Attempts(outs, 1).end = "ok"
                      THEN Payloads(Listings[department])
                      ELSE {Payload("invalid", <<>>)} :
                  LET g == get_department_courses(department, rate_limiter,
                               session_manager, api_circuit_breaker,
                               now, now + dur, login, outs, payload)
                      sent == g.requests > 0
                  IN /\ sent \/ dur = 0
                     /\ login \/ g.how = "nosession"
                     /\ todo' = Tail(todo)
                     /\ now' = now + dur
                     /\ rate_limiter' = g.rl
                     /\ session_manager' = g.sm
                     /\ api_circuit_breaker' = g.cb
                     /\ last_fetch' = FetchRecord(department, g.how, g.requests,
                                                  api_circuit_breaker, now)
                     /\ consecutive_failed' =
                            FailedInARow(consecutive_failed, g.how)
                     /\ last_run' = SubSeq(outs, 1, g.requests)
                     /\ department_courses' = g.courses
                     /\ all_section_data' =
                            IF g.courses = <<>> THEN all_section_data
                            ELSE all_section_data
                                     \o CheckCourses(department, courses, g.courses)
    /\ UNCHANGED <<pc, file, courses_data, previous_available_sections,
                   new_available, course_data, before, open_since,
                   default_courses, aliased, outbox, last_send, last_command>>
    /\ UNCHANGED <<breaker_callers, saving>>

\* lines 498-502 and 892-912: the status table, the notification, the sleep
FinishCycle ==
    /\ pc = "check"
    /\ todo = <<>>
    /\ LET available_sections == AvailableOf(all_section_data)
           current_identifiers == Identifiers(available_sections)
           new_sections == current_identifiers \ previous_available_sections
           closed == Identifiers(SeenClosed(all_section_data))
       IN /\ course_data' = UpdateCourseData(course_data, all_section_data)
          /\ new_available' = NewAvailable(available_sections, new_sections)
          /\ outbox' = send_section_notification(
                            NewAvailable(available_sections, new_sections))
          /\ previous_available_sections' = current_identifiers
          /\ open_since' = (open_since \cup new_sections) \ closed
    /\ now' = now + CHECK_INTERVAL
    /\ pc' = "idle"
    /\ department_courses' = <<>>
    /\ aliased' = FALSE
    /\ UNCHANGED <<file, courses_data, todo, all_section_data,
                   api_circuit_breaker, rate_limiter, session_manager,
                   last_fetch, before, consecutive_failed,
                   default_courses, last_run, last_send, last_command>>
    /\ UNCHANGED <<breaker_callers, saving>>

MaxTime == StartTime + MaxTicks * CHECK_INTERVAL
MaxTimeBreaker == StartTime + MaxTicksBreaker * CHECK_INTERVAL

Next ==
    \/ LoadCourses(MaxTime)
    \/ CheckDepartment(ListingsPolled, RunsPolled, DurationsPolled)
    \/ FinishCycle

Spec == Init /\ [][Next]_vars

\* ------------------------------------------------------------ breaker alone
\* The upstream calls of the polling thread seen from the circuit breaker:
\* robust_api_call is entered with a session, one call after the other, and
\* time passes between the calls.
ApiCall(Runs, Durations) ==
    /\ pc = "idle"
    /\ session_manager.session = "valid"
    /\ \E outs \in Runs, dur \in Durations :
          LET r == robust_api_call(api_circuit_breaker, outs, now, now + dur)
          IN /\ r.requests > 0 \/ dur = 0
             /\ now + dur <= MaxTimeBreaker
             /\ now' = now + dur
             /\ api_circuit_breaker' = r.cb
             /\ session_manager' =
                    IF r.how = "auth" THEN InvalidateSession(session_manager)
                    ELSE session_manager
             /\ last_fetch' = FetchRecord("", r.how, r.requests,
                                          api_circuit_breaker, now)
             /\ consecutive_failed' = FailedInARow(consecutive_failed, r.how)
             /\ last_run' = SubSeq(outs, 1, r.requests)
    /\ UNCHANGED <<pc, file, courses_data, todo, department_courses,
                   all_section_data,
                   previous_available_sections, new_available, course_data,
                   rate_limiter, before, open_since,
                   default_courses, aliased, outbox, last_send, last_command>>
    /\ UNCHANGED <<breaker_callers, saving>>

\* get_session, lines 212-229, when the session has to be renewed
Relogin ==
    /\ pc = "idle"
    /\ session_manager.session = "none"
    /\ \E login \in BOOLEAN :
          session_manager' = get_session(session_manager, now, login).sm
    /\ UNCHANGED <<now, pc, file, courses_data, todo, department_courses,
                   all_section_data,
                   previous_available_sections, new_available, course_data,
                   api_circuit_breaker, rate_limiter, last_fetch, before,
                   open_since, consecutive_failed,
                   default_courses, aliased, last_run, outbox, last_send,
                   last_command>>
    /\ UNCHANGED <<breaker_callers, saving>>

\* time.sleep(CHECK_INTERVAL), line 912
Sleep ==
    /\ pc = "idle"
    /\ now + CHECK_INTERVAL <= MaxTimeBreaker
    /\ now' = now + CHECK_INTERVAL
    /\ UNCHANGED <<pc, file, courses_data, todo, department_courses,
                   all_section_data,
                   previous_available_sections, new_available, course_data,
                   api_circuit_breaker, rate_limiter, session_manager,
                   last_fetch, before, open_since, consecutive_failed,
                   default_courses, aliased, last_run, outbox, last_send,
                   last_command>>
    /\ UNCHANGED <<breaker_callers, saving>>

NextBreaker ==
    \/ ApiCall(RunsBreaker, DurationsBreaker)
    \/ Relogin
    \/ Sleep

SpecBreaker == Init /\ [][NextBreaker]_vars

\* ------------------------------------------------------------ limiter alone
\* The polling loop over many cycles, long enough for the longest cooldown.
\* The EE endpoint answers with a listing that holds no record, or fails;
\* the ENGL endpoint never answers with a listing.
RunsLimiter == { <<"200", "200", "200">>, <<"500", "timeout", "429">> }
ListingsLimiter ==
    [department \in Departments |-> IF department = "EE" THEN { <<>> } ELSE {}]

MaxTimeLimiter == StartTime + MaxTicksLimiter * CHECK_INTERVAL

NextLimiter ==
    \/ LoadCourses(MaxTimeLimiter)
    \/ CheckDepartment(ListingsLimiter, RunsLimiter, DurationsPolled)
    \/ FinishCycle

SpecLimiter == Init /\ [][NextLimiter]_vars

\* ------------------------------------------------------------ session alone
\* A few poll cycles in which the upstream also rejects the session, at the
\* first request of a call or at a retry.
RunsAuth ==
    { <<"200", "200", "200">>, <<"500", "timeout", "429">>,
      <<"401", "200", "200">>, <<"429", "401", "200">> }

NextAuth ==
    \/ LoadCourses(MaxTime)
    \/ CheckDepartment(ListingsLimiter, RunsAuth, DurationsPolled)
    \/ FinishCycle

SpecAuth == Init /\ [][NextAuth]_vars

\* ------------------------------------------------------------ notifier alone
\* send_telegram_message called with a list of recipients; each post is
\* answered 200, answered with another status, or raises.
ChatIds == {"111", "222"}
PostOutcomes == {"200", "403", "raise"}

SendTelegram ==
    /\ pc = "idle"
    /\ \E chat_ids \in SeqsUpTo(ChatIds, MaxRecipients) \ {<<>>} :
          \E outcomes \in [DOMAIN chat_ids -> PostOutcomes] :
              last_send' = send_telegram_message(chat_ids, outcomes)
    /\ UNCHANGED <<now, pc, file, courses_data, todo, department_courses,
                   all_section_data, previous_available_sections,
                   new_available, course_data, api_circuit_breaker,
                   rate_limiter, session_manager, last_fetch, before,
                   open_since, consecutive_failed, default_courses, aliased,
                   last_run, outbox, last_command>>
    /\ UNCHANGED <<breaker_callers, saving>>

NextNotify == SendTelegram

SpecNotify == Init /\ [][NextNotify]_vars

\* ------------------------------------------------------------ commands
\* str.upper() and the department letters of a course code (line 722: the
\* characters of the code that are not digits), on the codes a command names
Upper(code) == IF code = "ee207" THEN "EE207" ELSE code

DepartmentOf(course_code) ==
    CASE course_code = "EE207" -> "EE"
      [] course_code = "ENGL214" -> "ENGL"
      [] course_code = "CS101" -> "CS"
      [] course_code = "207" -> ""

\* the text of a command after text.split(): shape "short" (the wrong number
\* of parts), "nodash" (no '-' in the second part) or "ok"
CommandText(shape, code, section, crn) ==
    [shape |-> shape, code |-> code, section |-> section, crn |-> crn]

HasDepartment(manifest, department) ==
    \E i \in DOMAIN manifest : manifest[i].department = department

\* courses_data[department] = courses
SetCourses(manifest, department, courses) ==
    [i \in DOMAIN manifest |->
        IF manifest[i].department = department
        THEN Dept(department, courses) ELSE manifest[i]]

\* lines 735-738 and 787-788: the first course of the list with the code (0: none)
FirstCourse(courses, course_code) ==
    LET at == {i \in DOMAIN courses : courses[i].code = course_code}
    IN IF at = {} THEN 0 ELSE CHOOSE i \in at : \A j \in at : i <= j

\* a sequence without the elements that fail a test
RECURSIVE KeepSections(_, _)
KeepSections(sections, section) ==
    IF sections = <<>> THEN <<>>
    ELSE IF Head(sections).section # section
         THEN <<Head(sections)>> \o KeepSections(Tail(sections), section)
         ELSE KeepSections(Tail(sections), section)

RECURSIVE KeepCourses(_)
KeepCourses(courses) ==
    IF courses = <<>> THEN <<>>
    ELSE IF Head(courses).sections # <<>>
         THEN <<Head(courses)>> \o KeepCourses(Tail(courses))
         ELSE KeepCourses(Tail(courses))

\* add_course_section without lines 741-745, its test for a section that
\* is already there
AddToManifestUnchecked(manifest, department, course_code, section, crn) ==
    LET m1 == IF HasDepartment(manifest, department) THEN manifest
              ELSE Append(manifest, Dept(department, <<>>))
        courses == CoursesOf(m1, department)
        k == FirstCourse(courses, course_code)
    IN IF k # 0
       THEN [manifest |->
                SetCourses(m1, department,
                    [courses EXCEPT ![k].sections =
                        Append(@, Section(section, crn))]),
             save |-> TRUE]
       ELSE [manifest |->
                SetCourses(m1, department,
                    Append(courses,
                           Course(course_code, << Section(section, crn) >>))),
             save |-> TRUE]

\* add_course_section, lines 730-755, on the manifest it loaded: the manifest
\* as the function leaves it, and whether it goes on to save_courses
AddToManifest(manifest, department, course_code, section, crn) ==
    LET m1 == IF HasDepartment(manifest, department) THEN manifest
              ELSE Append(manifest, Dept(department, <<>>))
        courses == CoursesOf(m1, department)
        k == FirstCourse(courses, course_code)
    IN IF k # 0
       THEN IF \E j \in DOMAIN courses[k].sections :
                   courses[k].sections[j].section = section
            THEN [manifest |-> m1, save |-> FALSE]
            ELSE [manifest |->
                     SetCourses(m1, department,
                         [courses EXCEPT ![k].sections =
                             Append(@, Section(section, crn))]),
                  save |-> TRUE]
       ELSE [manifest |->
                SetCourses(m1, department,
                    Append(courses,
                           Course(course_code, << Section(section, crn) >>))),
             save |-> TRUE]

\* remove_course_section without its test of removed, line 798: it saves
\* and reports a removal whenever the department is known
RemoveFromManifestUnchecked(manifest, department, course_code, section) ==
    IF ~ HasDepartment(manifest, department)
    THEN [manifest |-> manifest, reply |-> "nocourses", save |-> FALSE]
    ELSE LET courses == CoursesOf(manifest, department)
             k == FirstCourse(courses, course_code)
             kept == IF k = 0 THEN <<>>
                     ELSE KeepSections(courses[k].sections, section)
         IN [manifest |->
                IF k = 0 THEN manifest
                ELSE SetCourses(manifest, department,
                         KeepCourses([courses EXCEPT ![k].sections = kept])),
             reply |-> "removed", save |-> TRUE]

\* remove_course_section, lines 785-803
RemoveFromManifest(manifest, department, course_code, section) ==
    IF ~ HasDepartment(manifest, department)
    THEN [manifest |-> manifest, reply |-> "nocourses", save |-> FALSE]
    ELSE LET courses == CoursesOf(manifest, department)
             k == FirstCourse(courses, course_code)
             kept == IF k = 0 THEN <<>>
                     ELSE KeepSections(courses[k].sections, section)
             removed == k # 0 /\ Len(kept) < Len(courses[k].sections)
         IN IF removed
            THEN [manifest |->
                     SetCourses(manifest, department,
                         KeepCourses([courses EXCEPT ![k].sections = kept])),
                  reply |-> "removed", save |-> TRUE]
            ELSE [manifest |-> manifest, reply |-> "notfound", save |-> FALSE]

\* what save_courses may do
SaveOutcomes == {"ok", "open", "write"}

\* the record kept of one command: its reply to the issuer, what
\* save_courses did ("none": it was not called) and the (department, course
\* code, section) it named
CommandRecord(kind, reply, save, target) ==
    [kind |-> kind, reply |-> reply, save |-> save, target |-> target]

NoTarget == <<"", "", "">>

\* the commands the issuer sends
CommandCodes == {"EE207", "ee207", "CS101", "207"}
CommandSections == {"02", "05"}
CommandCrns == {"30000"}
CommandTexts ==
    {CommandText("ok", c, sec, crn) :
        c \in CommandCodes, sec \in CommandSections, crn \in CommandCrns}
      \cup {CommandText("short", "EE207", "02", "30000"),
            CommandText("nodash", "EE207", "02", "30000")}

\* add_course_section
AddCourseSection(Texts) ==
    /\ \E text \in Texts, outcome \in SaveOutcomes :
          LET course_code == Upper(text.code)
              department == DepartmentOf(course_code)
              l == load_courses(file, default_courses)
              a == AddToManifest(l.manifest, department, course_code,
                                 text.section, text.crn)
              sv == save_courses(file, a.manifest, outcome)
          IN IF text.shape # "ok"
             THEN /\ last_command' = CommandRecord("add", "format", "none", NoTarget)
                  /\ UNCHANGED <<file, default_courses>>
             ELSE IF department = ""
             THEN /\ last_command' = CommandRecord("add", "nodepartment", "none", NoTarget)
                  /\ UNCHANGED <<file, default_courses>>
             ELSE IF ~ a.save
             THEN /\ last_command' = CommandRecord("add", "duplicate", "none",
                                       <<department, course_code, text.section>>)
                  /\ default_courses' =
                         IF l.shared THEN a.manifest ELSE default_courses
                  /\ UNCHANGED file
             ELSE /\ last_command' =
                         CommandRecord("add",
                                       IF sv.ok THEN "added" ELSE "savefailed",
                                       outcome,
                                       <<department, course_code, text.section>>)
                  /\ default_courses' =
                         IF l.shared THEN a.manifest ELSE default_courses
                  /\ file' = sv.file
    /\ UNCHANGED <<now, pc, courses_data, todo, department_courses,
                   all_section_data, previous_available_sections,
                   new_available, course_data, api_circuit_breaker,
                   rate_limiter, session_manager, last_fetch, before,
                   open_since, consecutive_failed, aliased, last_run, outbox,
                   last_send>>
    /\ UNCHANGED <<breaker_callers, saving>>

\* remove_course_section
RemoveCourseSection(Texts) ==
    /\ \E text \in Texts, outcome \in SaveOutcomes :
          LET course_code == Upper(text.code)
              department == DepartmentOf(course_code)
              l == load_courses(file, default_courses)
              r == RemoveFromManifest(l.manifest, department, course_code,
                                      text.section)
              sv == save_courses(file, r.manifest, outcome)
          IN IF text.shape # "ok"
             THEN /\ last_command' = CommandRecord("remove", "format", "none", NoTarget)
                  /\ UNCHANGED <<file, default_courses>>
             ELSE IF ~ r.save
             THEN /\ last_command' = CommandRecord("remove", r.reply, "none",
                                       <<department, course_code, text.section>>)
                  /\ UNCHANGED <<file, default_courses>>
             ELSE /\ last_command' = CommandRecord("remove", r.reply, outcome,
                                       <<department, course_code, text.section>>)
                  /\ default_courses' =
                         IF l.shared THEN r.manifest ELSE default_courses
                  /\ file' = sv.file
    /\ UNCHANGED <<now, pc, courses_data, todo, department_courses,
                   all_section_data, previous_available_sections,
                   new_available, course_data, api_circuit_breaker,
                   rate_limiter, session_manager, last_fetch, before,
                   open_since, consecutive_failed, aliased, last_run, outbox,
                   last_send>>
    /\ UNCHANGED <<breaker_callers, saving>>

NextCommands ==
    \/ AddCourseSection(CommandTexts)
    \/ RemoveCourseSection(CommandTexts)

SpecCommands == Init /\ [][NextCommands]_vars

\* ------------------------------------------------------------ commands during a cycle
\* One poll cycle with commands arriving before it and at any point of it.  Every
\* department's listing holds a record with seats for each section a
\* manifest can track, and the upstream answers every request.
ListingsSnapshot ==
    [department \in Departments |->
        CASE department = "EE" ->
                 { << Raw("EE207", "02", "22716", Slash(3, 25)),
                      Raw("EE207", "03", "22717", Slash(3, 25)) >> }
          [] department = "ENGL" ->
                 { << Raw("ENGL214", "14", "21510", Slash(3, 25)),
                      Raw("ENGL214", "15", "21511", Slash(3, 25)) >> }
          [] department = "CS" ->
                 { << Raw("CS101", "02", "30000", Slash(3, 25)) >> }]

RunsSnapshot == { <<"200", "200", "200">> }

AddTextsSnapshot ==
    { CommandText("ok", "ENGL214", "15", "21511"),
      CommandText("ok", "CS101", "02", "30000") }
RemoveTextsSnapshot ==
    { CommandText("ok", "ENGL214", "14", "") }

NextSnapshot ==
    \/ LoadCourses(StartTime)
    \/ CheckDepartment(ListingsSnapshot, RunsSnapshot, DurationsPolled)
    \/ FinishCycle
    \/ AddCourseSection(AddTextsSnapshot)
    \/ RemoveCourseSection(RemoveTextsSnapshot)

SpecSnapshot == Init /\ [][NextSnapshot]_vars

\* ------------------------------------------------------------ retries alone
\* A few poll cycles in which the upstream answers a request with a 200 at
\* once or after retries, rejects the session, or never answers with a 200.
NextRetry ==
    \/ LoadCourses(MaxTime)
    \/ CheckDepartment(ListingsLimiter, RunsBreaker, DurationsPolled)
    \/ FinishCycle

SpecRetry == Init /\ [][NextRetry]_vars

\* ------------------------------------------------------------ breaker methods
\* The three methods of CircuitBreaker called by several threads, statement
\* by statement.  Each body runs under "with self._lock".
\* the first statement of a method
FirstStatement(method) ==
    CASE method = "can_execute" -> "ce_test"
      [] method = "record_success" -> "rs_count"
      [] method = "record_failure" -> "rf_count"

\* a lock that lets every thread in
LockIgnored(lock) == TRUE

\* threading.Lock: acquired only when no thread holds it
LockFree(lock) == lock = "none"

BreakerRest ==
    <<now, pc, file, courses_data, todo, department_courses, all_section_data,
      previous_available_sections, new_available, course_data, rate_limiter,
      session_manager, last_fetch, before, open_since, consecutive_failed,
      default_courses, aliased, last_run, outbox, last_send, last_command,
      saving>>

At(t, statement) == breaker_callers.at[t] = statement

\* the thread goes on to a statement of the same body
GoTo(t, statement) ==
    breaker_callers' = [breaker_callers EXCEPT !.at[t] = statement]

\* the body ends: the lock is released and the method returns
Release(t) ==
    breaker_callers' = [lock |-> "none",
                        at |-> [breaker_callers.at EXCEPT ![t] = "out"]]

\* "with self._lock:" of a method, lines 143, 154, 161
Acquire(t, method) ==
    /\ At(t, "out")
    /\ LockFree(breaker_callers.lock)
    /\ method = "record_failure" =>
           api_circuit_breaker.failure_count < MaxFailures
    /\ breaker_callers' = [lock |-> t,
                           at |-> [breaker_callers.at EXCEPT
                                       ![t] = FirstStatement(method)]]
    /\ UNCHANGED api_circuit_breaker
    /\ UNCHANGED BreakerRest

\* lines 144-151
CanExecuteBody(t) ==
    /\ At(t, "ce_test")
    /\ api_circuit_breaker' = can_execute(api_circuit_breaker, now).cb
    /\ Release(t)
    /\ UNCHANGED BreakerRest

\* line 155
RecordSuccessCount(t) ==
    /\ At(t, "rs_count")
    /\ api_circuit_breaker' = [api_circuit_breaker EXCEPT !.failure_count = 0]
    /\ GoTo(t, "rs_state")
    /\ UNCHANGED BreakerRest

\* line 158
RecordSuccessState(t) ==
    /\ At(t, "rs_state")
    /\ api_circuit_breaker' = [api_circuit_breaker EXCEPT !.state = "CLOSED"]
    /\ Release(t)
    /\ UNCHANGED BreakerRest

\* line 162
RecordFailureCount(t) ==
    /\ At(t, "rf_count")
    /\ api_circuit_breaker' =
           [api_circuit_breaker EXCEPT !.failure_count = @ + 1]
    /\ GoTo(t, "rf_time")
    /\ UNCHANGED BreakerRest

\* line 163
RecordFailureTime(t) ==
    /\ At(t, "rf_time")
    /\ api_circuit_breaker' =
           [api_circuit_breaker EXCEPT !.last_failure_time = now]
    /\ GoTo(t, "rf_test")
    /\ UNCHANGED BreakerRest

\* line 164
RecordFailureTest(t) ==
    /\ At(t, "rf_test")
    /\ IF /\ api_circuit_breaker.failure_count >= failure_threshold
          /\ api_circuit_breaker.state # "OPEN"
       THEN GoTo(t, "rf_open")
       ELSE Release(t)
    /\ UNCHANGED api_circuit_breaker
    /\ UNCHANGED BreakerRest

\* line 165
RecordFailureOpen(t) ==
    /\ At(t, "rf_open")
    /\ api_circuit_breaker' = [api_circuit_breaker EXCEPT !.state = "OPEN"]
    /\ Release(t)
    /\ UNCHANGED BreakerRest

NextMethods ==
    \/ \E t \in Threads,
             method \in {"can_execute", "record_success", "record_failure"} :
          Acquire(t, method)
    \/ \E t \in Threads : CanExecuteBody(t)
    \/ \E t \in Threads : RecordSuccessCount(t)
    \/ \E t \in Threads : RecordSuccessState(t)
    \/ \E t \in Threads : RecordFailureCount(t)
    \/ \E t \in Threads : RecordFailureTime(t)
    \/ \E t \in Threads : RecordFailureTest(t)
    \/ \E t \in Threads : RecordFailureOpen(t)
    \/ Sleep

SpecMethods == Init /\ [][NextMethods]_vars

\* ------------------------------------------------------------ recovery
\* The polling loop while the upstream fails for a while and then answers
\* every request with a 200.  The loop keeps running (while True, line 883),
\* and a login that is tried again and again succeeds.
RunsFailing == { <<"500", "timeout", "429">> }

FetchFailing ==
    /\ now < StartTime + MaxTicksFailing * CHECK_INTERVAL
    /\ CheckDepartment(ListingsLimiter, RunsFailing, DurationsPolled)

\* a fetch the upstream answers that was not given up for want of a session
FetchWithSession ==
    /\ CheckDepartment(ListingsLimiter, RunsSnapshot, DurationsPolled)
    /\ last_fetch'.how # "nosession"

NextRecovery ==
    \/ LoadCourses(MaxTimeLimiter)
    \/ FetchFailing
    \/ CheckDepartment(ListingsLimiter, RunsSnapshot, DurationsPolled)
    \/ FinishCycle

SpecRecovery ==
    /\ Init
    /\ [][NextRecovery]_vars
    /\ WF_vars(LoadCourses(MaxTimeLimiter))
    /\ WF_vars(FetchWithSession)
    /\ WF_vars(FinishCycle)

\* ------------------------------------------------------------ delivery
\* A few poll cycles in which the posts of the notification are followed.
\* The EE listing holds EE207-02 with or without seats, or no record.
TELEGRAM_CHAT_IDS == <<"111", "222">>

ListingsDelivery ==
    [department \in Departments |->
        IF department = "EE"
        THEN {<<>>} \cup {<<Raw("EE207", "02", "22716", v)>> : v \in SeatsOther}
        ELSE {}]

\* lines 892-912 with send_telegram_message followed: the message composed
\* by send_section_notification is posted once to every recipient, its
\* result is dropped (line 561), and line 909 is reached whatever it was
FinishCycleDelivering(Outcomes) ==
    /\ pc = "check"
    /\ todo = <<>>
    /\ LET available_sections == AvailableOf(all_section_data)
           current_identifiers == Identifiers(available_sections)
           new_sections == current_identifiers \ previous_available_sections
           closed == Identifiers(SeenClosed(all_section_data))
           messages == send_section_notification(
                           NewAvailable(available_sections, new_sections))
       IN /\ course_data' = UpdateCourseData(course_data, all_section_data)
          /\ new_available' = NewAvailable(available_sections, new_sections)
          /\ outbox' = messages
          /\ IF messages = <<>>
             THEN last_send' = last_send
             ELSE \E outcomes \in [DOMAIN TELEGRAM_CHAT_IDS -> Outcomes] :
                     last_send' = send_telegram_message(TELEGRAM_CHAT_IDS, outcomes)
          /\ previous_available_sections' = current_identifiers
          /\ open_since' = (open_since \cup new_sections) \ closed
    /\ now' = now + CHECK_INTERVAL
    /\ pc' = "idle"
    /\ department_courses' = <<>>
    /\ aliased' = FALSE
    /\ UNCHANGED <<file, courses_data, todo, all_section_data,
                   api_circuit_breaker, rate_limiter, session_manager,
                   last_fetch, before, consecutive_failed,
                   default_courses, last_run, last_command>>
    /\ UNCHANGED <<breaker_callers, saving>>

NextDelivery ==
    \/ LoadCourses(MaxTime)
    \/ CheckDepartment(ListingsDelivery, RunsSnapshot, DurationsPolled)
    \/ FinishCycleDelivering(PostOutcomes)

SpecDelivery == Init /\ [][NextDelivery]_vars

\* ------------------------------------------------------------ save in progress
\* A command whose save_courses is followed in two steps: open(COURSES_FILE,
\* 'w') truncates the file, and json.dump with the close of the file
\* completes it.  Between the two the file exists and json.load raises on it.
StoreRest ==
    <<now, pc, courses_data, todo, department_courses, all_section_data,
      previous_available_sections, new_available, course_data,
      api_circuit_breaker, rate_limiter, session_manager, last_fetch, before,
      open_since, consecutive_failed, aliased, last_run, outbox, last_send,
      last_command, breaker_callers>>

\* save_courses has opened the file for a manifest
Opened(manifest) ==
    [active |-> TRUE, manifest |-> manifest,
     completed |-> saving.completed, saved |-> saving.saved]

\* add_course_section, lines 728-757, up to the open() of save_courses
BeginAdd(Texts) ==
    /\ ~ saving.active
    /\ \E text \in Texts :
          LET course_code == Upper(text.code)
              department == DepartmentOf(course_code)
              l == load_courses(file, default_courses)
              a == AddToManifest(l.manifest, department, course_code,
                                 text.section, text.crn)
          IN /\ text.shape = "ok"
             /\ department # ""
             /\ a.save
             /\ default_courses' =
                    IF l.shared THEN a.manifest ELSE default_courses
             /\ file' = CorruptFile
             /\ saving' = Opened(a.manifest)
    /\ UNCHANGED StoreRest

\* remove_course_section, lines 783-805, up to the open() of save_courses
BeginRemove(Texts) ==
    /\ ~ saving.active
    /\ \E text \in Texts :
          LET course_code == Upper(text.code)
              department == DepartmentOf(course_code)
              l == load_courses(file, default_courses)
              r == RemoveFromManifest(l.manifest, department, course_code,
                                      text.section)
          IN /\ text.shape = "ok"
             /\ r.save
             /\ default_courses' =
                    IF l.shared THEN r.manifest ELSE default_courses
             /\ file' = CorruptFile
             /\ saving' = Opened(r.manifest)
    /\ UNCHANGED StoreRest

\* lines 249-251: json.dump has written the manifest and the file is closed
EndSave ==
    /\ saving.active
    /\ file' = StoredFile(saving.manifest)
    /\ saving' = [active |-> FALSE, manifest |-> <<>>,
                  completed |-> TRUE, saved |-> saving.manifest]
    /\ UNCHANGED default_courses
    /\ UNCHANGED StoreRest

NextStore ==
    \/ LoadCourses(MaxTime)
    \/ CheckDepartment(ListingsLimiter, RunsSnapshot, DurationsPolled)
    \/ FinishCycle
    \/ BeginAdd(AddTextsSnapshot)
    \/ BeginRemove(RemoveTextsSnapshot)
    \/ EndSave

SpecStore == Init /\ [][NextStore]_vars

\* ------------------------------------------------------------ seat levels
\* A few poll cycles in which the count of EE207-02 moves between 0 and
\* several positive values.
SeatsLevels == {Slash(0, 25), Slash(1, 25), Slash(3, 25), Slash(5, 25)}

ListingsLevels ==
    [department \in Departments |->
        IF department = "EE"
        THEN {<<>>} \cup {<<Raw("EE207", "02", "22716", v)>> : v \in SeatsLevels}
        ELSE {}]

NextLevels ==
    \/ LoadCourses(MaxTime)
    \/ CheckDepartment(ListingsLevels, RunsSnapshot, DurationsPolled)
    \/ FinishCycle

SpecLevels == Init /\ [][NextLevels]_vars

\* ------------------------------------------------------------ seat counts
\* One poll cycle over listings whose seats text is "cur/total" with a
\* count below, equal to and above the total, and with a total of 0.
SeatsCounted == {Slash(0, 25), Slash(3, 25), Slash(25, 25), Slash(30, 25), Slash(3, 0)}

ListingsCounted ==
    [department \in Departments |->
        IF department = "EE"
        THEN SeqsUpTo({Raw("EE207", "02", "22716", v) : v \in SeatsCounted}
                          \cup {Raw("EE207", "03", "22717", v) : v \in SeatsCounted},
                      MaxListing)
        ELSE {<<>>}]

NextCounted ==
    \/ LoadCourses(StartTime)
    \/ CheckDepartment(ListingsCounted, RunsSnapshot, DurationsPolled)
    \/ FinishCycle

SpecCounted == Init /\ [][NextCounted]_vars

\* one poll cycle over listings whose section and CRN fields vary freely
NextMatch ==
    \/ LoadCourses(StartTime)
    \/ CheckDepartment(ListingsMatch, RunsPolled, DurationsPolled)
    \/ FinishCycle

SpecMatch == Init /\ [][NextMatch]_vars

\* ------------------------------------------------------------ properties
Range(f) == {f[i] : i \in DOMAIN f}

\* a poll cycle has just completed
CycleDone == pc = "idle" /\ courses_data # <<>>

\* the identifiers of the sections a manifest tracks
TrackedOf(manifest) ==
    UNION { UNION { {<<c.code, sec.section, sec.crn>> : sec \in Range(c.sections)}
                    : c \in Range(d.courses) }
            : d \in Range(manifest) }

\* the seat values a list of observations holds for an identifier
SeatsSeen(found, id) ==
    {found[i].seats : i \in {j \in DOMAIN found : Identifier(found[j]) = id}}

\* how many events the completed cycle fired for an identifier
Fired(id) ==
    Cardinality({i \in DOMAIN new_available : Identifier(new_available[i]) = id})

KeyOf(id) == <<id[1], id[2]>>

\* C1: a section is notified at most once per transition: a cycle fires an
\* event only for a section that has been seen closed (zero seats, or seats
\* that cannot be read) since its last notification; cycles that return no
\* data for it never make it fire again.
C1_AtMostOncePerTransition ==
    CycleDone => \A id \in TrackedOf(courses_data) :
        id \in before.open_since => Fired(id) = 0

\* C2: edge-triggering.  For a section whose last observation showed a
\* verified 0, a cycle that observes 0 again fires nothing for it; a cycle
\* that observes a positive count fires exactly one event for it and the
\* status table then holds that count.
C2_EdgeTriggering ==
    CycleDone => \A id \in TrackedOf(courses_data) :
        \A v \in SeatsSeen(all_section_data, id) :
            (/\ KeyOf(id) \in DOMAIN before.course_data
             /\ ShowsZero(before.course_data[KeyOf(id)].status))
            => /\ ShowsZero(v) => Fired(id) = 0
               /\ ShowsPositive(v) =>
                     /\ Fired(id) = 1
                     /\ course_data[KeyOf(id)].available_seats = ShownAvailable(v)

\* C3: no re-notification while open.  A section observed with the same
\* positive count as in the cycle before fires nothing; the cycle that opens
\* such a run (the section was not seen open in the cycle before) fires
\* exactly one event for it.
C3_NoRenotificationWhileOpen ==
    CycleDone => \A id \in TrackedOf(courses_data) :
        \A v \in SeatsSeen(all_section_data, id) :
            ShowsPositive(v) =>
                /\ v \in SeatsSeen(before.all_section_data, id) => Fired(id) = 0
                /\ (\A w \in SeatsSeen(before.all_section_data, id) :
                        ~ ShowsPositive(w)) => Fired(id) = 1

\* C3 witness: a section seen with the same positive count in two cycles in
\* a row, notified in neither the second cycle nor again.
C3_Witness ==
    /\ CycleDone
    /\ \E id \in TrackedOf(courses_data) :
          \E v \in SeatsSeen(all_section_data, id) :
              /\ ShowsPositive(v)
              /\ v \in SeatsSeen(before.all_section_data, id)
              /\ Fired(id) = 0

\* C4: absence is not failure.  A tracked section the cycle found no data
\* for fires nothing, keeps its entry of the status table and keeps its
\* standing in the set of sections already notified.
C4_AbsenceChangesNothing ==
    CycleDone => \A id \in TrackedOf(courses_data) :
        SeatsSeen(all_section_data, id) = {} =>
            /\ Fired(id) = 0
            /\ (KeyOf(id) \in DOMAIN course_data
                    <=> KeyOf(id) \in DOMAIN before.course_data)
            /\ KeyOf(id) \in DOMAIN course_data =>
                   course_data[KeyOf(id)] = before.course_data[KeyOf(id)]
            /\ (id \in previous_available_sections <=> id \in before.previous)

\* every entry of a listing, the nested ones included
EntriesOf(listing) ==
    Range(listing) \cup UNION {Range(e.sections) : e \in Range(listing)}

\* C5: CRN-only matching.  The entry selected for a tracked section carries
\* the tracked CRN, and the seats reported for a tracked section are those
\* of an entry with the tracked CRN.
C5_CrnOnlyMatching ==
    (pc = "check" /\ department_courses # <<>>) =>
        \A d \in Range(courses_data) : d.department = last_fetch.department =>
            \A c \in Range(d.courses) : \A sec \in Range(c.sections) :
                LET r == SelectSection(MatchingCourses(department_courses, c.code),
                                       sec)
                IN /\ r.found => r.data.crn = sec.crn
                   /\ \A v \in SeatsSeen(all_section_data,
                                         <<c.code, sec.section, sec.crn>>) :
                         \E e \in EntriesOf(department_courses) :
                             e.crn = sec.crn /\ GetSeats(e) = v

C7_UnverifiedKeepsCount ==
    CycleDone => \A id \in TrackedOf(courses_data) :
        \A v \in SeatsSeen(all_section_data, id) :
            (Unverifiable(v) /\ KeyOf(id) \in DOMAIN before.course_data) =>
                course_data[KeyOf(id)].available_seats
                    = before.course_data[KeyOf(id)].available_seats

\* C8: after failure_threshold upstream calls in a row that sent a request
\* and got no response the breaker is OPEN, and a call entered while the
\* breaker is OPEN and recovery_timeout has not passed since the last
\* recorded failure is refused without a request.
C8_BreakerOpens ==
    /\ consecutive_failed >= failure_threshold =>
           api_circuit_breaker.state = "OPEN"
    /\ last_fetch.blocked =>
           last_fetch.how = "refused" /\ last_fetch.requests = 0

\* C9: one trial call.  No call is admitted while the breaker is HALF_OPEN:
\* the call that moved it there is the only one until its outcome has moved
\* the breaker to CLOSED or OPEN.
C9_OneTrialCall ==
    last_fetch.state_before = "HALF_OPEN" => last_fetch.how \in {"refused", "none"}

\* C10: a call admitted as the trial (the breaker was not CLOSED when it was
\* entered) ends with the breaker CLOSED if it got its response and OPEN if
\* it did not; the breaker is never left HALF_OPEN.
C10_TrialCallDecides ==
    (last_fetch.state_before # "CLOSED"
         /\ last_fetch.how \notin {"refused", "none", "limited", "nosession"}) =>
        IF last_fetch.how \in {"ok", "badpayload"}
        THEN api_circuit_breaker.state = "CLOSED"
        ELSE api_circuit_breaker.state = "OPEN"

\* the cooldown after n consecutive recorded failures of a department:
\* 10, 20, 40, then 80 for every n from 3 on
ExpectedCooldown(n) ==
    CASE n = 0 -> 10
      [] n = 1 -> 20
      [] n = 2 -> 40
      [] OTHER -> 80

\* the step in which the polling loop calls get_department_courses for the
\* department at the head of its list
FetchStep ==
    /\ pc = "check"
    /\ todo # <<>>
    /\ todo' = Tail(todo)
    /\ CoursesOf(courses_data, Head(todo).department) # <<>>

\* C11: per-department rate limiter.  A call for department d is refused
\* exactly when the time since d's last recorded call is below 10, 20, 40 or
\* 80 seconds after 0, 1, 2 or at least 3 recorded failures of d in a row; a
\* refused call changes nothing in the limiter; an admitted call records
\* its time, sets d's failure count to 0 on success and adds one to it on
\* failure; and no call for d changes what the limiter holds for another
\* department.
C11_RateLimiter ==
    [][ FetchStep =>
          LET d == Head(todo).department
              elapsed == now - rate_limiter.department_calls[d]
              n == rate_limiter.failure_counts[d]
              refused == last_fetch'.how = "limited"
          IN /\ refused <=> elapsed < ExpectedCooldown(n)
             /\ \A e \in Departments \ {d} :
                   /\ rate_limiter'.department_calls[e]
                          = rate_limiter.department_calls[e]
                   /\ rate_limiter'.failure_counts[e]
                          = rate_limiter.failure_counts[e]
             /\ refused => rate_limiter' = rate_limiter
             /\ ~ refused =>
                   /\ rate_limiter'.department_calls[d] = now'
                   /\ rate_limiter'.failure_counts[d]
                          = IF last_fetch'.how = "ok" THEN 0 ELSE n + 1
      ]_vars

\* C11 witness: a department whose call was admitted although it had four
\* recorded failures in a row (the 80 seconds had passed), while the other
\* department's count is back at 0 after a success.
C11_Witness ==
    /\ rate_limiter.failure_counts["ENGL"] >= 5
    /\ last_fetch.department = "ENGL"
    /\ last_fetch.how # "limited"
    /\ rate_limiter.failure_counts["EE"] = 0
    /\ rate_limiter.department_calls["EE"] > 0

\* the sections whose event fires in the completed cycle: observed with a
\* positive count and not in the set of the sections open in the cycle before
EventsOfCycle ==
    {id \in TrackedOf(courses_data) :
        /\ \E v \in SeatsSeen(all_section_data, id) : ShowsPositive(v)
        /\ id \notin before.previous}

\* the identifiers a message lists
ListedIn(message) ==
    {<<message.lines[i][1], message.lines[i][2], message.lines[i][3]>> :
        i \in DOMAIN message.lines}

\* C12: notifier.  A completed poll cycle has composed and handed over for
\* sending no message when no event fired in it and exactly one message
\* when at least one fired; that message lists each section whose event
\* fired once, and no other section.
C12_OneMessagePerCycle ==
    CycleDone =>
        /\ Len(outbox) = IF EventsOfCycle = {} THEN 0 ELSE 1
        /\ EventsOfCycle # {} =>
              /\ ListedIn(outbox[1]) = EventsOfCycle
              /\ Len(outbox[1].lines) = Cardinality(EventsOfCycle)

\* C12 witness: a cycle whose one message lists a newly open section while
\* another section, open and notified before, is still open and not listed.
C12_Witness ==
    /\ CycleDone
    /\ Len(outbox) = 1
    /\ \E id \in before.previous :
          /\ \E v \in SeatsSeen(all_section_data, id) : ShowsPositive(v)
          /\ id \notin ListedIn(outbox[1])

\* C13: delivery is independent per recipient.  Whatever happens to the post
\* for one recipient (another status than 200, or a network error), the
\* message is posted to every recipient of the list.
C13_EveryRecipientTried ==
    last_send.posted = last_send.chat_ids

\* C14: send_telegram_message returns True exactly when the post for at
\* least one recipient was answered 200.
C14_SuccessIffOneDelivered ==
    last_send.result <=> (last_send.delivered # {})

\* C15: a 401 fails the call at once.  In a get_department_courses step
\* whose upstream call received a 401, the 401 is the last answer the call
\* received, the call returns no listing, the stored session is invalidated
\* and no login follows in that step; and a step that starts without a
\* stored session sends a request only after a login made in that step.
C15_AuthFailsAtOnce ==
    [][ FetchStep =>
          LET run == last_run'
              fresh == /\ session_manager.session = "valid"
                       /\ ~ (now - session_manager.last_login > session_duration)
          IN /\ (\E i \in DOMAIN run : run[i] = "401") =>
                   /\ run[Len(run)] = "401"
                   /\ \A i \in 1..(Len(run) - 1) : run[i] # "401"
                   /\ last_fetch'.how = "auth"
                   /\ department_courses' = <<>>
                   /\ session_manager'.session = "none"
                   /\ fresh => session_manager'.last_login
                                   = session_manager.last_login
             /\ (~ fresh /\ last_fetch'.requests > 0) =>
                   session_manager'.last_login = now
      ]_vars

\* C15 witness: a call ended by a 401 on its second request, the session
\* invalidated.
C15_Witness ==
    /\ last_fetch.how = "auth"
    /\ last_run = <<"429", "401">>
    /\ session_manager.session = "none"
    /\ session_manager.last_login > 0

\* the (department, course code, section) triples of a manifest, and how
\* many section entries it holds
TriplesOf(manifest) ==
    UNION { UNION { {<<d.department, c.code, sec.section>> :
                        sec \in Range(c.sections)}
                    : c \in Range(d.courses) }
            : d \in Range(manifest) }

RECURSIVE CountSections(_)
CountSections(courses) ==
    IF courses = <<>> THEN 0
    ELSE Len(Head(courses).sections) + CountSections(Tail(courses))

RECURSIVE CountEntries(_)
CountEntries(manifest) ==
    IF manifest = <<>> THEN 0
    ELSE CountSections(Head(manifest).courses) + CountEntries(Tail(manifest))

UniqueTriples(manifest) ==
    CountEntries(manifest) = Cardinality(TriplesOf(manifest))

\* the manifest a load_courses would return now
Manifest == load_courses(file, default_courses).manifest

C17_RemoveMissingIsNoop ==
    [][ (/\ last_command'.kind = "remove"
         /\ last_command'.reply # "format"
         /\ last_command'.target \notin TriplesOf(Manifest)) =>
           /\ last_command'.reply \in {"notfound", "nocourses"}
           /\ last_command'.save = "none"
           /\ file' = file
           /\ default_courses' = default_courses
      ]_vars

\* C17 witness: a remove of an unknown section of a known course, answered
\* not found, after an add had stored the manifest in the file.
C17_Witness ==
    /\ last_command.kind = "remove"
    /\ last_command.reply = "notfound"
    /\ last_command.target[2] = "EE207"
    /\ file.state = "ok"

\* C19: a command whose save_courses failed is answered with a failure
\* reply, never with a success reply.
C19_SaveFailureReported ==
    last_command.save \in {"open", "write"} =>
        last_command.reply = "savefailed"

\* identifiers the cycle has observations for, and the identifiers a manifest
\* tracks in one department
ObservedIds == {Identifier(all_section_data[i]) : i \in DOMAIN all_section_data}

TrackedIn(manifest, department) ==
    TrackedOf(SelectSeq(manifest, LAMBDA d : d.department = department))

\* C18: manifest snapshot per cycle.  A poll cycle works on the manifest it
\* read at its start: a command that runs while the cycle is in progress
\* changes nothing the cycle matches or records.  With listings that hold
\* every section, the cycle observes no section outside the manifest it read,
\* and after a department's listing was fetched it has observed every section
\* that manifest tracks in the department.
C18_CycleUsesSnapshot ==
    (pc = "check" \/ CycleDone) =>
        /\ ObservedIds \subseteq TrackedOf(courses_data)
        /\ (Len(todo) < Len(courses_data) /\ last_fetch.how = "ok")
               => TrackedIn(courses_data, last_fetch.department)
                      \subseteq ObservedIds

\* C20: no baseline fires at once.  A positive count observed for a section
\* that was never observed before, or whose observation in the cycle before
\* (or whose last recorded observation) could not be read, fires one event in
\* that same cycle.
C20_NoBaselineFires ==
    CycleDone => \A id \in TrackedOf(courses_data) :
        \A v \in SeatsSeen(all_section_data, id) :
            (/\ ShowsPositive(v)
             /\ \/ KeyOf(id) \notin DOMAIN before.course_data
                \/ \E u \in SeatsSeen(before.all_section_data, id) : Unverifiable(u)
                \/ /\ KeyOf(id) \in DOMAIN before.course_data
                   /\ Unverifiable(before.course_data[KeyOf(id)].status))
            => Fired(id) = 1

\* C20 witness: a cycle in which one section, unreadable in the cycle
\* before, and another, never observed before, both show a positive count
\* and both fired.
C20_Witness ==
    /\ CycleDone
    /\ \E id \in TrackedOf(courses_data) :
          /\ \E v \in SeatsSeen(all_section_data, id) : ShowsPositive(v)
          /\ \E u \in SeatsSeen(before.all_section_data, id) : Unverifiable(u)
          /\ Fired(id) = 1
    /\ \E id \in TrackedOf(courses_data) :
          /\ \E v \in SeatsSeen(all_section_data, id) : ShowsPositive(v)
          /\ KeyOf(id) \notin DOMAIN before.course_data
          /\ Fired(id) = 1

\* a "cur/total" observation with the two numbers swapped when cur > total
Corrected(seats) ==
    IF seats.k = "slash" /\ seats.cur > seats.total
    THEN Slash(seats.total, seats.cur)
    ELSE seats

\* C21: seat-count correction.  An observation "cur/total" with cur > total
\* is treated as "total/cur": the section fires in its first cycle exactly
\* when the corrected count is positive, and the status table holds the
\* corrected count.
C21_SeatCountCorrected ==
    CycleDone => \A id \in TrackedOf(courses_data) :
        \A v \in SeatsSeen(all_section_data, id) :
            (v.k = "slash" /\ id \notin before.previous)
            => /\ (Fired(id) = 1) <=> (Corrected(v).cur > 0)
               /\ course_data[KeyOf(id)].available_seats = Corrected(v).cur

\* C22: transient upstream failures.  A get_department_courses step whose
\* upstream call ran out of attempts (timeouts, error statuses) or whose 200
\* response held no usable payload returns an empty listing and adds one to
\* the breaker's failure count and one to the department's failure count.
C22_TransientFailureCounted ==
    [][ FetchStep =>
          LET d == Head(todo).department
          IN last_fetch'.how \in {"failed", "badpayload"} =>
                /\ department_courses' = <<>>
                /\ api_circuit_breaker'.failure_count
                       = api_circuit_breaker.failure_count + 1
                /\ rate_limiter'.failure_counts[d]
                       = rate_limiter.failure_counts[d] + 1
      ]_vars

\* the identifiers the messages of the completed cycle list
ListedInOutbox == UNION {ListedIn(outbox[i]) : i \in DOMAIN outbox}

\* C23: a failed delivery is not retried.  Whatever the posts of an earlier
\* notification returned, a cycle that finds a section still open that was
\* open in the cycle before sends nothing for it, and a message lists a
\* section only when the section has been seen closed since it was last
\* notified.
C23_NoRetryOfDelivery ==
    CycleDone => \A id \in TrackedOf(courses_data) :
        /\ (id \in before.previous
               /\ \E v \in SeatsSeen(all_section_data, id) : ShowsPositive(v))
           => Fired(id) = 0 /\ id \notin ListedInOutbox
        /\ id \in ListedInOutbox => id \notin before.open_since

\* C24: bounded retries.  An upstream call that is admitted sends at least
\* one and at most max_retries requests and no request after a 200.  When
\* its last answer is a 200 the breaker is CLOSED with no failure counted;
\* when every answer is a 429, an error status or a network error it has
\* sent exactly max_retries requests, returns no listing and has added
\* exactly one to the breaker's failure count.
C24_BoundedRetries ==
    [][ (FetchStep /\ last_fetch'.how \in {"ok", "badpayload", "auth", "failed"}) =>
          LET run == last_run'
          IN /\ Len(run) >= 1 /\ Len(run) <= max_retries
             /\ last_fetch'.requests = Len(run)
             /\ \A i \in 1..(Len(run) - 1) : run[i] # "200"
             /\ run[Len(run)] = "200" =>
                   /\ api_circuit_breaker'.state = "CLOSED"
                   /\ api_circuit_breaker'.failure_count = 0
             /\ (\A i \in DOMAIN run : run[i] \in {"429", "500", "timeout"}) =>
                   /\ Len(run) = max_retries
                   /\ last_fetch'.how = "failed"
                   /\ department_courses' = <<>>
                   /\ api_circuit_breaker'.failure_count
                          = api_circuit_breaker.failure_count + 1
      ]_vars

\* C24 witness: a call that ran out of attempts on a timeout, a 429 and a
\* 500 after an earlier one had done so, two failures counted.
C24_Witness ==
    /\ last_fetch.how = "failed"
    /\ last_run = <<"timeout", "429", "500">>
    /\ api_circuit_breaker.failure_count = 2

\* C25: breaker recovery.  Once the upstream answers every request and
\* polling goes on, an OPEN breaker is CLOSED again at some later time, and
\* the step that closes it is a call that can_execute let through as the
\* HALF_OPEN trial after recovery_timeout.
C25_BreakerRecovers ==
    /\ (api_circuit_breaker.state = "OPEN") ~> (api_circuit_breaker.state = "CLOSED")
    /\ [][ (api_circuit_breaker.state = "OPEN"
                /\ api_circuit_breaker'.state = "CLOSED") =>
              /\ can_execute(api_circuit_breaker, now).cb.state = "HALF_OPEN"
              /\ now - api_circuit_breaker.last_failure_time > recovery_timeout
              /\ last_fetch'.how \in {"ok", "badpayload"}
         ]_vars

\* C25 witness: the breaker CLOSED by a trial call of a department whose
\* calls the breaker had refused so often that its cooldown was the longest.
C25_Witness ==
    /\ api_circuit_breaker.state = "CLOSED"
    /\ last_fetch.state_before = "OPEN"
    /\ last_fetch.how \in {"ok", "badpayload"}
    /\ rate_limiter.failure_counts[last_fetch.department] > MaxBackoffExp
    /\ now - api_circuit_breaker.last_failure_time
           > recovery_timeout + 2 * CHECK_INTERVAL

\* C26: breaker consistency.  Whenever no thread is inside a method of the
\* breaker, its state is CLOSED, OPEN or HALF_OPEN, and it is CLOSED exactly
\* when failure_count is below failure_threshold.
C26_BreakerConsistent ==
    breaker_callers.lock = "none" =>
        /\ api_circuit_breaker.state \in {"CLOSED", "OPEN", "HALF_OPEN"}
        /\ (api_circuit_breaker.state = "CLOSED")
               <=> (api_circuit_breaker.failure_count < failure_threshold)

\* C26 witness: no thread inside a method and the breaker HALF_OPEN with
\* more failures counted than the threshold (it was opened, tried and opened
\* again before).
C26_Witness ==
    /\ breaker_callers.lock = "none"
    /\ api_circuit_breaker.state = "HALF_OPEN"
    /\ api_circuit_breaker.failure_count > failure_threshold

\* C27: the manifest a cycle loads.  When a poll cycle loads the manifest
\* while a file exists and a save has completed, it gets the manifest of the
\* most recent completed save; and it gets the DEFAULT_COURSES object only
\* when no file exists.
C27_LoadSeesLastSave ==
    [][ (pc = "idle" /\ pc' = "check") =>
          /\ (file.state # "absent" /\ saving.completed)
                 => courses_data' = saving.saved
          /\ aliased' => file.state = "absent"
      ]_vars

\* C28: one recorded outcome per admitted call.  A get_department_courses
\* step the rate limiter refuses sends no request and changes neither the
\* limiter nor the breaker.  Every other step sets the department's last-call
\* time to the time of the call and its failure count to 0 when a listing was
\* returned and to one more otherwise; a step that sent no request because
\* the breaker refused it or no session could be had counts as a failure, and
\* the department's cooldown is not shorter after it.
C28_OneOutcomePerCall ==
    [][ FetchStep =>
          LET d == Head(todo).department
              n == rate_limiter.failure_counts[d]
              how == last_fetch'.how
          IN /\ how = "limited" =>
                   /\ last_fetch'.requests = 0
                   /\ rate_limiter' = rate_limiter
                   /\ api_circuit_breaker' = api_circuit_breaker
             /\ how # "limited" =>
                   /\ rate_limiter'.department_calls[d] = now'
                   /\ rate_limiter'.failure_counts[d]
                          = IF how = "ok" THEN 0 ELSE n + 1
                   /\ how = "ok" =>
                          last_run' # <<>> /\ last_run'[Len(last_run')] = "200"
             /\ how \in {"refused", "nosession"} =>
                   /\ last_fetch'.requests = 0
                   /\ rate_limiter'.failure_counts[d] = n + 1
                   /\ Cooldown(n + 1) >= Cooldown(n)
                   /\ n < MaxBackoffExp => Cooldown(n + 1) > Cooldown(n)
      ]_vars

\* C28 witness: a call the breaker refused, counted as the department's
\* third failure in a row or a later one at the time of the call.
C28_Witness ==
    /\ last_fetch.how = "refused"
    /\ last_fetch.department = "EE"
    /\ rate_limiter.failure_counts["EE"] >= failure_threshold
    /\ rate_limiter.department_calls["EE"] = now

\* C29: a change of the count fires nothing.  A section observed with a
\* positive count in the cycle before and with another positive count in
\* this cycle fires no event in this cycle.
C29_CountChangeFiresNothing ==
    CycleDone => \A id \in TrackedOf(courses_data) :
        \A v \in SeatsSeen(all_section_data, id) :
            \A w \in SeatsSeen(before.all_section_data, id) :
                (ShowsPositive(v) /\ ShowsPositive(w) /\ v.cur # w.cur)
                    => Fired(id) = 0 /\ id \notin ListedInOutbox

\* C29 witness: a section seen with 5 seats after 3 in the cycle before, and
\* nothing fired or sent for it.
C29_Witness ==
    /\ CycleDone
    /\ \E id \in TrackedOf(courses_data) :
          /\ Slash(5, 25) \in SeatsSeen(all_section_data, id)
          /\ Slash(3, 25) \in SeatsSeen(before.all_section_data, id)
          /\ Fired(id) = 0
          /\ outbox = <<>>

====
